---- MODULE Spec2Model ----
(***************************************************************************)
(* Model of gemini-google-search-tool: the citation splicer                *)
(* (core/search.py add_inline_citations), the query executor               *)
(* (core/search.py query_with_grounding) and the query command             *)
(* (commands/query_commands.py query, utils.py).                           *)
(*                                                                         *)
(* Python str values are sequences of one-character strings; Python None   *)
(* and "attribute missing" are tagged records (NoneVal, Missing); a Python *)
(* list that may be None is ListVal(items).                                *)
(***************************************************************************)
EXTENDS Integers, Sequences, FiniteSets, TLC

VARIABLES
    pc,                 \* position of the operation under analysis
    response_text,      \* add_inline_citations argument
    grounding_segments, \* add_inline_citations argument (optional list)
    citations,          \* add_inline_citations argument
    spliced,            \* value returned by add_inline_citations
    reply,              \* what client.models.generate_content does when called
    outcome,            \* how query_with_grounding ends: SearchResponse, SearchError or raw exception
    args,               \* options of the query command
    stdin,              \* standard input of the process
    api_key,            \* GEMINI_API_KEY in the environment
    final_prompt,       \* the validated prompt
    stdout,             \* messages echoed to standard output, in order
    stderr,             \* messages echoed to standard error, in order
    exit_code           \* exit status once the process has ended

spliceVars == <<response_text, grounding_segments, citations, spliced>>

queryVars == <<reply, outcome>>

cliVars == <<args, stdin, api_key, final_prompt, stdout, stderr, exit_code>>

vars == <<pc, spliceVars, queryVars, cliVars>>

----------------------------------------------------------------------------
(* Bounds of the model                                                     *)

MaxTextLen == 3      \* longest generic response text
MaxSegs == 2         \* most grounding segments in one input
ReorderSegs == 3     \* segments of a call whose reorderings are compared
MaxRefs == 2         \* most chunk indices in one segment
MaxChunkIdx == 1     \* largest 0-based chunk index a segment refers to
MaxCits == 2         \* most citations in one input
EndSlack == 1        \* how far end_index may lie outside 0..MaxTextLen
MaxParts == 2        \* most content parts in a reply
MaxChunks == 3       \* most raw grounding chunks in a reply
MaxSupports == 2     \* most grounding supports in a reply
MaxPromptLen == 3    \* longest positional prompt
MaxStdinLen == 2     \* longest piped standard input

----------------------------------------------------------------------------
(* Python values                                                           *)

NoneVal == [tag |-> "None"]
Missing == [tag |-> "missing"]
ListVal(items) == [tag |-> "list", items |-> items]
StrVal(s) == [tag |-> "str", val |-> s]
IntVal(n) == [tag |-> "int", val |-> n]

\* bool(x) of an optional list: None and [] are falsy
Truthy(v) == v.tag = "list" /\ v.items # <<>>

SeqsUpTo(S, n) == UNION {[1..k -> S] : k \in 0..n}

RECURSIVE Concat(_)
\* "".join(parts)
Concat(parts) ==
    IF parts = <<>> THEN <<>> ELSE Head(parts) \o Concat(Tail(parts))

RECURSIVE Join(_, _)
\* sep.join(parts)
Join(sep, parts) ==
    IF parts = <<>> THEN <<>>
    ELSE IF Len(parts) = 1 THEN parts[1]
    ELSE parts[1] \o sep \o Join(sep, Tail(parts))

DigitChars == <<"0", "1", "2", "3", "4", "5", "6", "7", "8", "9">>

RECURSIVE NatToStr(_)
NatToStr(n) ==
    IF n < 10 THEN <<DigitChars[n + 1]>>
    ELSE NatToStr(n \div 10) \o <<DigitChars[(n % 10) + 1]>>

\* f"{n}" of a Python int
IntToStr(n) == IF n < 0 THEN <<"-">> \o NatToStr(-n) ELSE NatToStr(n)

\* A slice bound e of a sequence of length n, as Python normalises it:
\* negative bounds count from the end, everything is clamped into 0..n.
SliceBound(e, n) ==
    IF e < 0 THEN (IF e + n < 0 THEN 0 ELSE e + n)
    ELSE IF e > n THEN n ELSE e

\* text[:e]; e is an int or None, and None stands for no bound
SliceTo(text, e) ==
    IF e = NoneVal THEN text ELSE SubSeq(text, 1, SliceBound(e.val, Len(text)))

\* text[e:]; e is an int or None, and None stands for no bound
SliceFrom(text, e) ==
    IF e = NoneVal THEN text
    ELSE SubSeq(text, SliceBound(e.val, Len(text)) + 1, Len(text))

----------------------------------------------------------------------------
(* core/search.py: add_inline_citations                                    *)

\* citation_uris = {c.index: c.uri for c in citations}; a later citation
\* with the same index overwrites an earlier one.
citation_uris(cits) ==
    [i \in {cits[j].index : j \in 1..Len(cits)} |->
        LET last == CHOOSE j \in 1..Len(cits) :
                        /\ cits[j].index = i
                        /\ \A k \in (j + 1)..Len(cits) : cits[k].index # i
        IN cits[last].uri]

\* mutant: a sort that puts s in front of the placed segments of equal end_index
InsertSegmentBeforeTies(placed, s) ==
    LET k == Cardinality({i \in 1..Len(placed) : placed[i].end_index.val > s.end_index.val})
    IN SubSeq(placed, 1, k) \o <<s>> \o SubSeq(placed, k + 1, Len(placed))

\* sorted(..., reverse=True) keeps equal keys in their input order: s goes
\* behind every element already placed whose end_index is >= its own.
InsertSegment(placed, s) ==
    LET k == Cardinality({i \in 1..Len(placed) : placed[i].end_index.val >= s.end_index.val})
    IN SubSeq(placed, 1, k) \o <<s>> \o SubSeq(placed, k + 1, Len(placed))

RECURSIVE SortedPrefix(_, _)
SortedPrefix(segs, n) ==
    IF n = 0 THEN <<>> ELSE InsertSegment(SortedPrefix(segs, n - 1), segs[n])

\* sorted() compares the keys of a list of two or more segments, and a key
\* that is None is in no order with an int or with None
SortRaises(segs) ==
    Len(segs) >= 2 /\ \E i \in 1..Len(segs) : segs[i].end_index = NoneVal

\* type(key).__name__
TypeName(key) ==
    IF key = NoneVal THEN <<"N", "o", "n", "e", "T", "y", "p", "e">>
    ELSE <<"i", "n", "t">>

\* "'<' not supported between instances of '{left}' and '{right}'"
NotSupportedMessage(left, right) ==
    <<"'", "<", "'", " ", "n", "o", "t", " ", "s", "u", "p", "p", "o", "r", "t",
      "e", "d", " ", "b", "e", "t", "w", "e", "e", "n", " ", "i", "n", "s", "t",
      "a", "n", "c", "e", "s", " ", "o", "f", " ", "'">>
    \o left \o <<"'", " ", "a", "n", "d", " ", "'">> \o right \o <<"'">>

RECURSIVE MinRunLoop(_, _)
MinRunLoop(n, r) ==
    IF n >= 64 THEN MinRunLoop(n \div 2, IF n % 2 = 1 THEN 1 ELSE r) ELSE n + r

\* merge_compute_minrun of list.sort: n itself below 64, else between 32 and 64
merge_compute_minrun(n) == MinRunLoop(n, 0)

RECURSIVE RunEnd(_, _, _, _)
\* count_run continued at keys[k]: each key is compared with the one before
\* it, keys[k] < keys[k - 1], until the answer changes; the result is the
\* first index outside the run, or j when the comparison reaches keys[j]
RunEnd(keys, k, descending, j) ==
    IF k = j THEN j
    ELSE IF (keys[k].val < keys[k - 1].val) # descending THEN k
    ELSE RunEnd(keys, k + 1, descending, j)

\* count_run from keys[lo], lo < j, the keys before keys[j] being ints
CountRun(keys, lo, j) ==
    IF lo + 1 = j THEN j
    ELSE RunEnd(keys, lo + 2, keys[lo + 1].val < keys[lo].val, j)

RECURSIVE NoneStartsRun(_, _, _, _)
\* The sort takes the keys run by run from the front: a natural run found by
\* count_run, extended by binary insertion to minrun keys when it is shorter;
\* merging the runs taken so far compares ints only. keys[j] is the first
\* None key. TRUE when a run starts exactly at keys[j], FALSE when keys[j]
\* is met inside a run, by count_run or as the pivot of the insertion.
NoneStartsRun(keys, lo, j, minrun) ==
    IF lo = j THEN TRUE
    ELSE LET k == CountRun(keys, lo, j)
             remaining == Len(keys) - lo + 1
             force == IF minrun < remaining THEN minrun ELSE remaining
             next == IF k - lo < minrun THEN lo + force ELSE k
         IN IF k = j \/ next > j THEN FALSE
            ELSE NoneStartsRun(keys, next, j, minrun)

\* str(e) of the TypeError of the first comparison that meets a None key
\* (CPython 3.11). list.sort(reverse=True) sorts the reversed key list. A
\* None key that starts a run and has a successor is the right operand of
\* count_run's first comparison, successor < None; everywhere else (inside a
\* run, as insertion pivot, or as a last run of one key that is merged) the
\* None key is the left operand and the other key an int.
SortErrorMessage(segs) ==
    LET n == Len(segs)
        keys == [i \in 1..n |-> segs[n + 1 - i].end_index]
        j == CHOOSE i \in 1..n :
                 /\ keys[i] = NoneVal
                 /\ \A k \in 1..(i - 1) : keys[k] # NoneVal
    IN IF j < n /\ NoneStartsRun(keys, 1, j, merge_compute_minrun(n))
       THEN NotSupportedMessage(TypeName(keys[j + 1]), TypeName(NoneVal))
       ELSE NotSupportedMessage(TypeName(NoneVal), TypeName(IntVal(0)))

\* mutant: the segments are applied in input order, no sort
sorted_segments_unsorted(segs) == segs

\* mutant: ascending instead of descending sort
sorted_segments_ascending(segs) ==
    LET d == SortedPrefix(segs, Len(segs))
    IN [i \in 1..Len(d) |-> d[Len(d) + 1 - i]]

\* sorted(grounding_segments, key=lambda s: s.end_index, reverse=True)
sorted_segments(segs) == SortedPrefix(segs, Len(segs))

\* mutant: the marker shows the 0-based chunk index
citation_link_zero_based(citation_idx, uri) ==
    <<"[">> \o IntToStr(citation_idx - 1) \o <<"]", "(">> \o uri \o <<")">>

\* f"[{citation_idx}]({uri})"
citation_link(citation_idx, uri) ==
    <<"[">> \o IntToStr(citation_idx) \o <<"]", "(">> \o uri \o <<")">>

\* uri = citation_uris.get(citation_idx); if uri: (None and "" are falsy)
HasUri(uris, citation_idx) ==
    citation_idx \in DOMAIN uris /\ uris[citation_idx] # <<>>

RECURSIVE CitationLinksLoop(_, _)
CitationLinksLoop(chunk_indices, uris) ==
    IF chunk_indices = <<>> THEN <<>>
    ELSE LET citation_idx == Head(chunk_indices) + 1
         IN (IF HasUri(uris, citation_idx)
             THEN <<citation_link(citation_idx, uris[citation_idx])>>
             ELSE <<>>)
            \o CitationLinksLoop(Tail(chunk_indices), uris)

\* mutant: one unresolvable chunk index drops the whole group
citation_links_all_or_nothing(chunk_indices, uris) ==
    IF \A i \in 1..Len(chunk_indices) : HasUri(uris, chunk_indices[i] + 1)
    THEN CitationLinksLoop(chunk_indices, uris)
    ELSE <<>>

RECURSIVE Dedup(_)
Dedup(s) ==
    IF s = <<>> THEN <<>>
    ELSE LET init == SubSeq(s, 1, Len(s) - 1)
             last == s[Len(s)]
         IN IF \E i \in 1..Len(init) : init[i] = last
            THEN Dedup(init) ELSE Dedup(init) \o <<last>>

\* mutant: each chunk index is cited once
citation_links_dedup(chunk_indices, uris) ==
    CitationLinksLoop(Dedup(chunk_indices), uris)

\* the inner loop: the list citation_links of one segment
citation_links(chunk_indices, uris) == CitationLinksLoop(chunk_indices, uris)

\* citation_string = ", ".join(citation_links)
citation_string(links) == Join(<<",", " ">>, links)

\* One iteration of the loop over sorted_segments.
ApplySegment(text, segment, uris) ==
    IF ~Truthy(segment.chunk_indices) THEN text
    ELSE LET links == citation_links(segment.chunk_indices.items, uris)
         IN IF links = <<>> THEN text
            ELSE SliceTo(text, segment.end_index)
                 \o citation_string(links)
                 \o SliceFrom(text, segment.end_index)

RECURSIVE ApplySegments(_, _, _)
ApplySegments(text, segs, uris) ==
    IF segs = <<>> THEN text
    ELSE ApplySegments(ApplySegment(text, Head(segs), uris), Tail(segs), uris)

\* what a caller sees when the function raises instead of returning
Raised(kind) == <<kind>>

\* mutant: the early return only looks at the citations, so that a None
\* segment list reaches sorted() and raises
add_inline_citations_cits_guard_only(text, segments, cits) ==
    IF cits = <<>> THEN text
    ELSE IF segments.tag # "list" THEN Raised("TypeError")
    ELSE IF SortRaises(segments.items) THEN Raised("TypeError")
    ELSE ApplySegments(text, sorted_segments(segments.items), citation_uris(cits))

\* the returned text, or Raised("TypeError") when sorted() raises
add_inline_citations(text, segments, cits) ==
    IF ~Truthy(segments) \/ cits = <<>> THEN text
    ELSE IF SortRaises(segments.items) THEN Raised("TypeError")
    ELSE ApplySegments(text, sorted_segments(segments.items), citation_uris(cits))

----------------------------------------------------------------------------
(* Inputs of add_inline_citations                                          *)

BaseText == <<"a", "b", "c", "d", "e", "f", "g", "h">>

\* "Paris is the capital."
ParisText ==
    <<"P", "a", "r", "i", "s", " ", "i", "s", " ", "t", "h", "e", " ",
      "c", "a", "p", "i", "t", "a", "l", ".">>

\* "https://a", "https://b"
UriA == <<"h", "t", "t", "p", "s", ":", "/", "/", "a">>
UriB == <<"h", "t", "t", "p", "s", ":", "/", "/", "b">>

Texts == {SubSeq(BaseText, 1, n) : n \in 0..MaxTextLen}

EndIndices == (0 - EndSlack)..(MaxTextLen + EndSlack)

ChunkIndexLists == SeqsUpTo(0..MaxChunkIdx, MaxRefs)

\* GroundingSegment(start_index, end_index, text, chunk_indices); the fields
\* hold what they are given (IntVal, StrVal, ListVal or NoneVal): a dataclass
\* does not check its annotations
GroundingSegment(s, e, t, c) ==
    [start_index |-> s, end_index |-> e, text |-> t, chunk_indices |-> c]

\* Citation(index, uri, title)
Citation(i, u, t) == [index |-> i, uri |-> u, title |-> t]

\* the end_index values a segment can carry: query_with_grounding copies
\* the attribute of the reply, which is an int or None
EndValues == {NoneVal} \cup {IntVal(e) : e \in EndIndices}

\* start_index and text are never read by add_inline_citations
Segments ==
    {GroundingSegment(IntVal(0), e, StrVal(<<>>), ListVal(c)) :
        e \in EndValues, c \in ChunkIndexLists}

\* uri is non-empty in every Citation (data model); title is never read here
Uris == {<<"u">>, <<"v">>}

Citations == {Citation(i, u, <<>>) : i \in 1..(MaxChunkIdx + 1), u \in Uris}

SegmentInputs ==
    {NoneVal} \cup {ListVal(l) : l \in SeqsUpTo(Segments, MaxSegs)}

CitationInputs == SeqsUpTo(Citations, MaxCits)

\* the two worked examples of the specification
ParisScenario ==
    /\ response_text = ParisText
    /\ grounding_segments = ListVal(<<GroundingSegment(IntVal(0), IntVal(22), StrVal(ParisText),
                                     ListVal(<<0>>))>>)
    /\ citations = <<Citation(1, UriA, <<>>)>>

TwoCitationScenario ==
    /\ response_text = ParisText
    /\ grounding_segments =
           ListVal(<<GroundingSegment(IntVal(0), IntVal(5), StrVal(SubSeq(ParisText, 1, 5)),
                                     ListVal(<<0, 1>>))>>)
    /\ citations = <<Citation(1, UriA, <<"A">>), Citation(2, UriB, <<"B">>)>>

NotReturned == Raised("not returned")

Idle == [tag |-> "idle"]

CliIdle ==
    /\ args = Idle
    /\ stdin = Idle
    /\ api_key = Idle
    /\ final_prompt = Idle
    /\ stdout = <<>>
    /\ stderr = <<>>
    /\ exit_code = Idle

SpliceInit ==
    /\ pc = "call"
    /\ spliced = NotReturned
    /\ reply = Idle
    /\ outcome = Idle
    /\ CliIdle
    /\ \/ /\ response_text \in Texts
          /\ grounding_segments \in SegmentInputs
          /\ citations \in CitationInputs
       \/ ParisScenario
       \/ TwoCitationScenario

\* the call add_inline_citations(response_text, grounding_segments, citations)
Splice ==
    /\ pc = "call"
    /\ spliced' = add_inline_citations(response_text, grounding_segments, citations)
    /\ pc' = "returned"
    /\ UNCHANGED <<response_text, grounding_segments, citations, queryVars, cliVars>>

SpliceNext == Splice

SpliceSpec == SpliceInit /\ [][SpliceNext]_vars

\* Calls with exactly ReorderSegs segments, for the reorderings of a list in
\* which two segments share an end_index and a third one differs
ReorderChunkLists == {<<>>, <<0>>, <<1>>}

ReorderSegments ==
    {GroundingSegment(IntVal(0), e, StrVal(<<>>), ListVal(c)) :
        e \in EndValues, c \in ReorderChunkLists}

ReorderCitations ==
    {<<Citation(1, <<"u">>, <<>>)>>,
     <<Citation(1, <<"u">>, <<>>), Citation(2, <<"v">>, <<>>)>>}

ReorderInit ==
    /\ pc = "call"
    /\ spliced = NotReturned
    /\ reply = Idle
    /\ outcome = Idle
    /\ CliIdle
    /\ response_text \in Texts
    /\ grounding_segments \in {ListVal(l) : l \in [1..ReorderSegs -> ReorderSegments]}
    /\ citations \in ReorderCitations

ReorderNext == Splice

ReorderSpec == ReorderInit /\ [][ReorderNext]_vars

----------------------------------------------------------------------------
(* Properties of add_inline_citations                                      *)

Returned == pc = "returned"

HasSegments == grounding_segments.tag = "list"

InputSegs == grounding_segments.items

IndexPermutations(n) ==
    {p \in [1..n -> 1..n] : \A i, j \in 1..n : i # j => p[i] # p[j]}

Permuted(segs, p) == [i \in 1..Len(segs) |-> segs[p[i]]]

\* p leaves segments that share an end_index in their relative order
KeepsTies(segs, p) ==
    \A i, j \in 1..Len(segs) :
        (i < j /\ segs[p[i]].end_index = segs[p[j]].end_index) => p[i] < p[j]

DistinctEnds(segs) ==
    \A i, j \in 1..Len(segs) : i # j => segs[i].end_index # segs[j].end_index

\* every end_index is an int
IntEnds(segs) == \A i \in 1..Len(segs) : segs[i].end_index # NoneVal

\* every end_index is an int of 0..len(text)
EndsInRange(segs, text) ==
    \A i \in 1..Len(segs) :
        /\ segs[i].end_index # NoneVal
        /\ segs[i].end_index.val >= 0 /\ segs[i].end_index.val <= Len(text)

\* the citation group the code builds for one segment ("" when it inserts nothing)
GroupOf(seg, cits) ==
    IF Truthy(seg.chunk_indices)
    THEN citation_string(citation_links(seg.chunk_indices.items, citation_uris(cits)))
    ELSE <<>>

\* the text with every group placed at its end_index counted in the original text
GroupsAt(text, segs, cits, pos) ==
    Concat([i \in 1..Len(segs) |->
               IF segs[i].end_index = IntVal(pos) THEN GroupOf(segs[i], cits) ELSE <<>>])

InsertedAtOriginalOffsets(text, segs, cits) ==
    Concat([k \in 1..(Len(text) + 1) |->
               GroupsAt(text, segs, cits, k - 1)
               \o (IF k <= Len(text) THEN <<text[k]>> ELSE <<>>)])

\* C1 as stated: every permutation of the segment list gives the same string
\* (read here on segments that keep the data model's 0 <= end_index <=
\* len(text), where it already fails).
C1_AnyPermutationSameResult ==
    (Returned /\ HasSegments /\ citations # <<>>
       /\ EndsInRange(InputSegs, response_text)) =>
        \A p \in IndexPermutations(Len(InputSegs)) :
            add_inline_citations(response_text, ListVal(Permuted(InputSegs, p)), citations)
                = spliced

\* C1 amended: every permutation of the segment list that keeps segments with
\* equal end_index in their relative order gives the same final string; in
\* particular every permutation does when the end_index values are pairwise
\* distinct.
C1_TiePreservingPermutationSameResult ==
    (Returned /\ HasSegments /\ citations # <<>>) =>
        \A p \in IndexPermutations(Len(InputSegs)) :
            KeepsTies(InputSegs, p) =>
                add_inline_citations(response_text, ListVal(Permuted(InputSegs, p)), citations)
                    = spliced

\* the reordering that moves the second of three segments to the end
MoveSecondLast == <<1, 3, 2>>

\* three segments inside the text, the first and the third sharing an
\* end_index and inserting different groups, the second with a lower
\* end_index given between them: moving the second one to the end keeps the
\* tied ones in their order and gives the same string, swapping the tied
\* ones does not
C1_Witness ==
    /\ Returned /\ HasSegments /\ Len(InputSegs) = 3
    /\ EndsInRange(InputSegs, response_text)
    /\ InputSegs[1].end_index = InputSegs[3].end_index
    /\ InputSegs[2].end_index.val < InputSegs[1].end_index.val
    /\ \A i \in 1..3 : GroupOf(InputSegs[i], citations) # <<>>
    /\ GroupOf(InputSegs[1], citations) # GroupOf(InputSegs[3], citations)
    /\ KeepsTies(InputSegs, MoveSecondLast)
    /\ Permuted(InputSegs, MoveSecondLast) # InputSegs
    /\ add_inline_citations(response_text,
                            ListVal(Permuted(InputSegs, MoveSecondLast)), citations)
          = spliced
    /\ add_inline_citations(response_text,
                            ListVal(Permuted(InputSegs, <<3, 2, 1>>)), citations)
          # spliced

\* C2: with pairwise distinct end_index values inside 0..len(text), the result
\* is the original text with each segment's group inserted at its end_index
\* counted in the original text.
C2_OffsetStability ==
    (Returned /\ HasSegments /\ InputSegs # <<>> /\ citations # <<>>
       /\ DistinctEnds(InputSegs) /\ EndsInRange(InputSegs, response_text)) =>
        spliced = InsertedAtOriginalOffsets(response_text, InputSegs, citations)

\* two groups inserted, one of them at len(text), given lowest offset first
C2_Witness ==
    /\ Returned /\ HasSegments /\ Len(InputSegs) = 2
    /\ InputSegs[1].end_index = IntVal(1)
    /\ InputSegs[2].end_index = IntVal(Len(response_text))
    /\ Len(response_text) = MaxTextLen
    /\ GroupOf(InputSegs[1], citations) # <<>>
    /\ GroupOf(InputSegs[2], citations) # <<>>

\* C3: with grounding_segments None or [], or citations [], the text comes
\* back unchanged.
C3_DegenerateInputNoOp ==
    (Returned /\ (~Truthy(grounding_segments) \/ citations = <<>>)) =>
        spliced = response_text

\* None segments with citations present and a non-empty text
C3_Witness ==
    /\ Returned
    /\ grounding_segments = NoneVal
    /\ citations # <<>>
    /\ response_text # <<>>
    /\ spliced = response_text

\* "a citation with index c + 1 exists"
Resolves(c, cits) == \E j \in 1..Len(cits) : cits[j].index = c + 1

\* the chunk indices of a segment that resolve, in the segment's order
Resolving(seg, cits) ==
    IF seg.chunk_indices.tag = "list"
    THEN SelectSeq(seg.chunk_indices.items, LAMBDA c : Resolves(c, cits))
    ELSE <<>>

CountChar(s, ch) == Cardinality({i \in 1..Len(s) : s[i] = ch})

RECURSIVE TotalResolving(_, _)
TotalResolving(segs, cits) ==
    IF segs = <<>> THEN 0
    ELSE Len(Resolving(Head(segs), cits)) + TotalResolving(Tail(segs), cits)

WithoutSegment(segs, i) == SubSeq(segs, 1, i - 1) \o SubSeq(segs, i + 1, Len(segs))

\* the call raised: sorted() met an end_index that is None
SpliceRaised == spliced = Raised("TypeError")

\* C5: the result holds one marker per chunk index c that has a citation of
\* index c + 1 (the other references are dropped one by one, the segment is
\* kept), and a segment none of whose chunk indices resolves inserts nothing:
\* the result is the one obtained without that segment. (A call that raises
\* has no result.)
C5_UnresolvableOmittedIndividually ==
    (Returned /\ Truthy(grounding_segments) /\ citations # <<>> /\ ~SpliceRaised) =>
        /\ CountChar(spliced, "[") = TotalResolving(InputSegs, citations)
        /\ Len(spliced) >= Len(response_text)
        /\ \A i \in 1..Len(InputSegs) :
              Resolving(InputSegs[i], citations) = <<>> =>
                  spliced = add_inline_citations(
                                response_text,
                                ListVal(WithoutSegment(InputSegs, i)),
                                citations)

\* one segment with a resolvable and an unresolvable reference, another with
\* only an unresolvable one
C5_Witness ==
    /\ Returned /\ HasSegments /\ Len(InputSegs) = 2
    /\ citations # <<>>
    /\ ~SpliceRaised
    /\ \E i, j \in 1..2 :
          /\ Truthy(InputSegs[i].chunk_indices)
          /\ Len(InputSegs[i].chunk_indices.items) = 2
          /\ Len(Resolving(InputSegs[i], citations)) = 1
          /\ Truthy(InputSegs[j].chunk_indices)
          /\ Resolving(InputSegs[j], citations) = <<>>
    /\ CountChar(spliced, "[") = 1

\* the uri shown for citation index idx
UriOf(idx, cits) ==
    LET last == CHOOSE j \in 1..Len(cits) :
                    /\ cits[j].index = idx
                    /\ \A k \in (j + 1)..Len(cits) : cits[k].index # idx
    IN cits[last].uri

\* the group the claim describes: "[c+1](uri)" per resolving chunk index, in
\* the order of chunk_indices, joined by ", "
DescribedGroup(seg, cits) ==
    LET r == Resolving(seg, cits)
    IN Concat([k \in 1..Len(r) |->
                  (IF k > 1 THEN <<",", " ">> ELSE <<>>)
                  \o <<"[">> \o IntToStr(r[k] + 1) \o <<"]", "(">>
                  \o UriOf(r[k] + 1, cits) \o <<")">>])

\* "[1](https://a), [2](https://b)"
TwoCitationGroup ==
    <<"[", "1", "]", "(">> \o UriA \o <<")", ",", " ", "[", "2", "]", "(">> \o UriB \o <<")">>

\* C6: the group inserted for a segment lists its markers in the order of
\* chunk_indices, neither sorted nor de-duplicated, each "[<chunk_index+1>](<uri>)",
\* joined by ", "; citations 1 -> https://a, 2 -> https://b with chunk_indices
\* [0,1] give "[1](https://a), [2](https://b)".
C6_GroupOrderAndFormat ==
    /\ (Returned /\ HasSegments /\ Len(InputSegs) = 1 /\ citations # <<>>
          /\ EndsInRange(InputSegs, response_text)) =>
            spliced = SubSeq(response_text, 1, InputSegs[1].end_index.val)
                      \o DescribedGroup(InputSegs[1], citations)
                      \o SubSeq(response_text, InputSegs[1].end_index.val + 1,
                                Len(response_text))
    /\ (Returned /\ TwoCitationScenario) =>
            spliced = SubSeq(ParisText, 1, 5) \o TwoCitationGroup
                      \o SubSeq(ParisText, 6, Len(ParisText))

\* the worked example has been spliced
C6_Witness ==
    /\ Returned /\ TwoCitationScenario
    /\ Len(spliced) = Len(ParisText) + Len(TwoCitationGroup)

\* "[1](https://a)"
ParisMarker == <<"[", "1", "]", "(">> \o UriA \o <<")">>

\* C7: "Paris is the capital." with one segment {0, 22, [0]} and the citation
\* 1 -> https://a gives "Paris is the capital.[1](https://a)".
C7_ParisExample ==
    (Returned /\ ParisScenario) => spliced = ParisText \o ParisMarker

\* the example has been spliced; its end_index 22 lies beyond the 21 characters
C7_Witness ==
    /\ Returned /\ ParisScenario
    /\ InputSegs[1].end_index.val > Len(response_text)
    /\ spliced # response_text

----------------------------------------------------------------------------
(* core/search.py: query_with_grounding                                    *)

\* getattr(obj, name, default): the default only replaces a missing attribute
GetAttr(v, default) == IF v = Missing THEN default ELSE v

\* truth value of an attribute that is None, a str, a list or an object
IsTrue(v) ==
    CASE v.tag = "None" -> FALSE
      [] v.tag = "missing" -> FALSE
      [] v.tag = "str" -> v.val # <<>>
      [] v.tag = "list" -> v.items # <<>>
      [] OTHER -> TRUE

SearchResponse(text, cits, queries, segments) ==
    [tag |-> "SearchResponse", response_text |-> text, citations |-> cits,
     web_search_queries |-> queries, grounding_segments |-> segments]

\* SearchError(f"Query failed: {str(e)}")
QueryFailedPrefix ==
    <<"Q", "u", "e", "r", "y", " ", "f", "a", "i", "l", "e", "d", ":", " ">>

SearchError(message) == [tag |-> "SearchError", message |-> message]

\* an exception leaving the try body
\* the exception classes in play with their direct base classes: the
\* built-in hierarchy, asyncio.CancelledError, google.genai's APIError and
\* the two classes of this package (class SearchError(Exception), class
\* GeminiClientError(Exception))
ClassBases ==
    [BaseException |-> {},
     Exception |-> {"BaseException"},
     BaseExceptionGroup |-> {"BaseException"},
     GeneratorExit |-> {"BaseException"},
     KeyboardInterrupt |-> {"BaseException"},
     SystemExit |-> {"BaseException"},
     CancelledError |-> {"BaseException"},
     ExceptionGroup |-> {"BaseExceptionGroup", "Exception"},
     TypeError |-> {"Exception"},
     ValueError |-> {"Exception"},
     OSError |-> {"Exception"},
     ConnectionError |-> {"OSError"},
     APIError |-> {"Exception"},
     GeminiClientError |-> {"Exception"},
     SearchError |-> {"Exception"}]

RECURSIVE Superclasses(_)
\* the classes of type(e).__mro__ for an exception of class kind
Superclasses(kind) ==
    {kind} \cup UNION {Superclasses(b) : b \in ClassBases[kind]}

\* an exception of class kind whose class has the given superclasses
\* (itself included), with str(e) = message
RaiseAs(kind, classes, message) ==
    [tag |-> "raise", kind |-> kind, classes |-> classes, message |-> message]

\* raise kind(message), for a class of ClassBases
Raise(kind, message) == RaiseAs(kind, Superclasses(kind), message)

\* str(TypeError) of iterating None
NotIterableMessage ==
    <<"'", "N", "o", "n", "e", "T", "y", "p", "e", "'", " ", "o", "b", "j", "e",
      "c", "t", " ", "i", "s", " ", "n", "o", "t", " ", "i", "t", "e", "r", "a",
      "b", "l", "e">>

\* response.candidates and len(response.candidates) > 0
HasCandidate(response) == IsTrue(response.candidates)

RECURSIVE PartTexts(_)
\* part.text for part in parts if hasattr(part, "text") and part.text is not None
PartTexts(parts) ==
    IF parts = <<>> THEN <<>>
    ELSE (IF Head(parts).text.tag = "str" THEN <<Head(parts).text.val>> ELSE <<>>)
         \o PartTexts(Tail(parts))

ExtractResponseText(response) ==
    IF HasCandidate(response)
    THEN LET candidate == response.candidates.items[1]
         IN IF IsTrue(candidate.content) /\ IsTrue(candidate.content.parts)
            THEN Concat(PartTexts(candidate.content.parts.items))
            ELSE <<>>
    ELSE <<>>

\* uri of one raw chunk: from chunk.web when it is set, else from chunk.uri
ChunkUri(chunk) ==
    IF IsTrue(chunk.web) THEN GetAttr(chunk.web.uri, NoneVal)
    ELSE IF chunk.uri # Missing THEN chunk.uri
    ELSE NoneVal

ChunkTitle(chunk) ==
    IF IsTrue(chunk.web) THEN GetAttr(chunk.web.title, NoneVal)
    ELSE IF chunk.uri # Missing THEN GetAttr(chunk.title, NoneVal)
    ELSE NoneVal

\* title or ""
TitleOrEmpty(title) == IF IsTrue(title) THEN title.val ELSE <<>>

\* mutant: citations are numbered by how many were kept so far
CitationIndexByKept(i, kept) == Len(kept) + 1

\* index=i + 1, i being the position enumerate() gives the chunk
CitationIndex(i, kept) == i + 1

RECURSIVE ExtractCitations(_, _, _)
\* for i, chunk in enumerate(chunks): ... citations.append(...)
ExtractCitations(chunks, i, kept) ==
    IF i >= Len(chunks) THEN kept
    ELSE LET chunk == chunks[i + 1]
             uri == ChunkUri(chunk)
         IN ExtractCitations(
                chunks, i + 1,
                IF IsTrue(uri)
                THEN Append(kept, Citation(CitationIndex(i, kept), uri.val,
                                           TitleOrEmpty(ChunkTitle(chunk))))
                ELSE kept)

\* queries = getattr(...); if queries: web_search_queries = queries
ExtractQueries(metadata) ==
    LET queries == GetAttr(metadata.web_search_queries, ListVal(<<>>))
    IN IF IsTrue(queries) THEN queries ELSE NoneVal

RECURSIVE SupportSegments(_)
\* the loop over supports: a support without segment appends nothing
SupportSegments(supports) ==
    IF supports = <<>> THEN <<>>
    ELSE LET support == Head(supports)
             segment == GetAttr(support.segment, NoneVal)
             chunk_indices == GetAttr(support.grounding_chunk_indices, ListVal(<<>>))
         IN (IF IsTrue(segment)
             THEN <<GroundingSegment(
                        GetAttr(segment.start_index, IntVal(0)),
                        GetAttr(segment.end_index, IntVal(0)),
                        GetAttr(segment.text, StrVal(<<>>)),
                        chunk_indices)>>
             ELSE <<>>)
            \o SupportSegments(Tail(supports))

\* mutant: the collected list is stored even when it is empty
ExtractSegmentsKeepEmpty(metadata) ==
    LET supports == GetAttr(metadata.grounding_supports, ListVal(<<>>))
    IN IF IsTrue(supports)
       THEN ListVal(SupportSegments(supports.items))
       ELSE NoneVal

\* if supports: ...; if segments: grounding_segments = segments
ExtractSegments(metadata) ==
    LET supports == GetAttr(metadata.grounding_supports, ListVal(<<>>))
    IN IF IsTrue(supports)
       THEN LET segments == SupportSegments(supports.items)
            IN IF segments # <<>> THEN ListVal(segments) ELSE NoneVal
       ELSE NoneVal

\* the grounding metadata that is interpreted, or None
UsedMetadata(response) ==
    IF HasCandidate(response)
       /\ response.candidates.items[1].grounding_metadata # Missing
       /\ IsTrue(response.candidates.items[1].grounding_metadata)
    THEN response.candidates.items[1].grounding_metadata
    ELSE NoneVal

\* the body of the try block: a returned SearchResponse or a raised exception
TryBody(r) ==
    IF r.tag = "raise" THEN r
    ELSE LET metadata == UsedMetadata(r)
             text == ExtractResponseText(r)
         IN IF metadata = NoneVal
            THEN SearchResponse(text, <<>>, NoneVal, NoneVal)
            ELSE LET chunks == GetAttr(metadata.grounding_chunks, ListVal(<<>>))
                 IN IF chunks.tag # "list"
                    THEN Raise("TypeError", NotIterableMessage)
                    ELSE SearchResponse(
                             text,
                             ExtractCitations(chunks.items, 0, <<>>),
                             ExtractQueries(metadata),
                             ExtractSegments(metadata))

\* isinstance(e, Exception), the test of "except Exception": Exception is
\* among the superclasses of the exception's class
IsException(e) == "Exception" \in e.classes

\* mutant: only errors of the remote call are wrapped
HandleOnlyApiErrors(result) ==
    IF result.tag = "raise"
    THEN IF result.kind = "APIError"
         THEN SearchError(QueryFailedPrefix \o result.message)
         ELSE result
    ELSE result

\* except Exception as e: raise SearchError(f"Query failed: {str(e)}") from e
\* An exception whose class does not derive from Exception passes the
\* handler and leaves the function as it was raised.
HandleException(result) ==
    IF result.tag = "raise" /\ IsException(result)
    THEN SearchError(QueryFailedPrefix \o result.message)
    ELSE result

\* what leaves the function: a SearchResponse (returned), a SearchError
\* (raised by the handler) or the exception the handler let pass
query_with_grounding(r) == HandleException(TryBody(r))

----------------------------------------------------------------------------
(* Replies of the remote service                                           *)

Web(uri, title) == [tag |-> "web", uri |-> uri, title |-> title]

Chunk(web, uri, title) == [web |-> web, uri |-> uri, title |-> title]

Part(text) == [text |-> text]

Content(parts) == [tag |-> "content", parts |-> parts]

Segment(s, e, t) == [tag |-> "segment", start_index |-> s, end_index |-> e, text |-> t]

Support(segment, indices) ==
    [segment |-> segment, grounding_chunk_indices |-> indices]

Metadata(chunks, queries, supports) ==
    [tag |-> "metadata", grounding_chunks |-> chunks,
     web_search_queries |-> queries, grounding_supports |-> supports]

Candidate(content, metadata) ==
    [content |-> content, grounding_metadata |-> metadata]

Response(candidates) == [tag |-> "response", candidates |-> candidates]

\* a nested web object with or without uri, a flat chunk, a chunk with neither
ChunkKinds ==
    {Chunk(Web(StrVal(<<"u">>), StrVal(<<"T">>)), Missing, Missing),
     Chunk(Web(NoneVal, StrVal(<<"T">>)), Missing, Missing),
     Chunk(NoneVal, StrVal(<<"v">>), NoneVal),
     Chunk(Missing, Missing, Missing)}

PartKinds == {Part(StrVal(<<"a">>)), Part(StrVal(<<"b">>)), Part(NoneVal)}

\* supports without a segment, and segments whose fields are missing, set or
\* None (a reply type leaves an omitted field None)
SupportKinds ==
    {Support(NoneVal, ListVal(<<0>>)),
     Support(Missing, Missing),
     Support(Segment(Missing, IntVal(1), Missing), ListVal(<<0>>)),
     Support(Segment(IntVal(0), IntVal(2), StrVal(<<"a", "b">>)), ListVal(<<1, 0>>)),
     Support(Segment(NoneVal, IntVal(2), NoneVal), NoneVal),
     Support(Segment(IntVal(0), IntVal(1), StrVal(<<"a">>)), Missing),
     Support(Segment(IntVal(0), NoneVal, StrVal(<<"a">>)), ListVal(<<0>>))}

OptionalList(S, n) ==
    {Missing, NoneVal} \cup {ListVal(l) : l \in SeqsUpTo(S, n)}

Contents ==
    {NoneVal, Content(NoneVal)}
        \cup {Content(ListVal(l)) : l \in SeqsUpTo(PartKinds, MaxParts)}

QueryLists == {Missing, NoneVal, ListVal(<<>>), ListVal(<<StrVal(<<"q">>)>>)}

Metadatas ==
    {Metadata(c, q, s) :
        c \in OptionalList(ChunkKinds, MaxChunks),
        q \in QueryLists,
        s \in OptionalList(SupportKinds, MaxSupports)}

Candidates ==
    {Candidate(c, m) : c \in Contents, m \in {Missing, NoneVal} \cup Metadatas}

ErrorMessages == {<<"5", "0", "3">>, <<"q", "u", "o", "t", "a">>}

\* what the remote call may raise: errors of the service and of the
\* connection, and the interrupts that reach the process while it waits
RemoteErrors ==
    {Raise(k, m) : k \in {"APIError", "ConnectionError"}, m \in ErrorMessages}
        \cup {Raise("KeyboardInterrupt", <<>>), Raise("SystemExit", <<"1">>),
              Raise("GeneratorExit", <<>>), Raise("BaseException", <<"b">>),
              Raise("CancelledError", <<"c">>),
              Raise("BaseExceptionGroup", <<"g">>),
              Raise("ExceptionGroup", <<"g">>),
              RaiseAs("CustomBase", {"CustomBase", "BaseException"}, <<"u">>),
              RaiseAs("CustomError", {"CustomError", "Exception", "BaseException"},
                      <<"u">>)}

Replies ==
    RemoteErrors
        \cup {Response(NoneVal), Response(ListVal(<<>>))}
        \cup {Response(ListVal(<<c>>)) : c \in Candidates}

SpliceIdle ==
    /\ response_text = <<>>
    /\ grounding_segments = NoneVal
    /\ citations = <<>>
    /\ spliced = NotReturned

QueryInit ==
    /\ pc = "query"
    /\ reply \in Replies
    /\ outcome = Idle
    /\ SpliceIdle
    /\ CliIdle

\* the call query_with_grounding(client, prompt, model)
Query ==
    /\ pc = "query"
    /\ outcome' = query_with_grounding(reply)
    /\ pc' = "query_returned"
    /\ UNCHANGED <<reply, spliceVars, cliVars>>

QueryNext == Query

QuerySpec == QueryInit /\ [][QueryNext]_vars

----------------------------------------------------------------------------
(* Properties of query_with_grounding                                      *)

QueryReturned == pc = "query_returned"

Responded == QueryReturned /\ outcome.tag = "SearchResponse"

\* the raw grounding_chunks list behind a returned SearchResponse
RawChunks ==
    LET metadata == UsedMetadata(reply)
    IN IF metadata # NoneVal /\ metadata.grounding_chunks.tag = "list"
       THEN metadata.grounding_chunks.items
       ELSE <<>>

\* the raw grounding_supports list behind a returned SearchResponse
RawSupports ==
    LET metadata == UsedMetadata(reply)
    IN IF metadata # NoneVal /\ metadata.grounding_supports.tag = "list"
       THEN metadata.grounding_supports.items
       ELSE <<>>

\* what add_inline_citations inserts for one segment that cites chunk index k
InsertedFor(k, cits) ==
    add_inline_citations(
        <<>>,
        ListVal(<<GroundingSegment(IntVal(0), IntVal(0), StrVal(<<>>), ListVal(<<k>>))>>),
        cits)

\* C4: every Citation has index i + 1, i the 0-based position of its chunk in
\* the raw list, whatever was skipped before it; so chunk index k resolves,
\* through k + 1, to the uri of raw chunk k or to nothing, never to another
\* chunk's uri.
C4_IndexIsRawPositionPlusOne ==
    Responded =>
        /\ \A j \in 1..Len(outcome.citations) :
              LET c == outcome.citations[j]
              IN /\ c.index \in 1..Len(RawChunks)
                 /\ IsTrue(ChunkUri(RawChunks[c.index]))
                 /\ c.uri = ChunkUri(RawChunks[c.index]).val
                 /\ Cardinality({i \in 1..(c.index - 1) :
                                    IsTrue(ChunkUri(RawChunks[i]))}) = j - 1
        /\ \A k \in 0..MaxChunks :
              InsertedFor(k, outcome.citations) =
                  IF k < Len(RawChunks) /\ IsTrue(ChunkUri(RawChunks[k + 1]))
                  THEN citation_link(k + 1, ChunkUri(RawChunks[k + 1]).val)
                  ELSE <<>>

\* a kept chunk follows a skipped one and another kept one
C4_Witness ==
    /\ Responded
    /\ Len(RawChunks) = 3
    /\ ~IsTrue(ChunkUri(RawChunks[1]))
    /\ IsTrue(ChunkUri(RawChunks[2]))
    /\ IsTrue(ChunkUri(RawChunks[3]))
    /\ ChunkUri(RawChunks[2]) # ChunkUri(RawChunks[3])
    /\ Len(outcome.citations) = 2
    /\ outcome.citations[2].index = 3

Contains(s, sub) ==
    \E i \in 0..(Len(s) - Len(sub)) : SubSeq(s, i + 1, i + Len(sub)) = sub

\* the reply cannot be interpreted: iterating its chunk list raises
Uninterpretable(r) ==
    /\ r.tag = "response"
    /\ UsedMetadata(r) # NoneVal
    /\ UsedMetadata(r).grounding_chunks = NoneVal

\* the remote call raises an exception that derives from Exception
RemoteException == reply.tag = "raise" /\ IsException(reply)

\* the remote call raises an exception that does not derive from Exception
RemoteInterrupt == reply.tag = "raise" /\ ~IsException(reply)

\* C8 (amended): an exception deriving from Exception, raised by the remote
\* call or while interpreting its reply, leaves the function as a SearchError
\* whose message contains the original message, and no SearchResponse is
\* returned; an exception whose class does not derive from Exception
\* (KeyboardInterrupt, SystemExit, GeneratorExit, BaseExceptionGroup,
\* asyncio.CancelledError, ...) leaves the function raw,
\* as it was raised; in every other case a SearchResponse is returned.
C8_ExceptionsWrappedInSearchError ==
    QueryReturned =>
        /\ outcome.tag \in {"SearchResponse", "SearchError", "raise"}
        /\ RemoteException =>
              (outcome.tag = "SearchError" /\ Contains(outcome.message, reply.message))
        /\ Uninterpretable(reply) =>
              (outcome.tag = "SearchError"
                 /\ Contains(outcome.message, NotIterableMessage))
        /\ RemoteInterrupt => outcome = reply
        /\ outcome.tag = "SearchError" => (RemoteException \/ Uninterpretable(reply))
        /\ outcome.tag = "raise" => RemoteInterrupt

\* C8 (as stated): an error of the remote call or of interpreting its reply
\* leaves the function as a SearchError whose message contains the original
\* message; no raw exception and no SearchResponse comes out in that case.
C8_ErrorsWrappedInSearchError ==
    QueryReturned =>
        /\ outcome.tag \in {"SearchResponse", "SearchError"}
        /\ reply.tag = "raise" =>
              (outcome.tag = "SearchError" /\ Contains(outcome.message, reply.message))
        /\ Uninterpretable(reply) =>
              (outcome.tag = "SearchError"
                 /\ Contains(outcome.message, NotIterableMessage))
        /\ outcome.tag = "SearchError" =>
              (reply.tag = "raise" \/ Uninterpretable(reply))

\* a reply whose interpretation raises, with answer text present
C8_Witness ==
    /\ QueryReturned
    /\ Uninterpretable(reply)
    /\ ExtractResponseText(reply) # <<>>
    /\ outcome.tag = "SearchError"
    /\ Contains(outcome.message, NotIterableMessage)

\* positions of the supports that carry a segment
WithSegment == {i \in 1..Len(RawSupports) : RawSupports[i].segment.tag = "segment"}

\* the j-th support that carries a segment
NthWithSegment(j) ==
    CHOOSE i \in WithSegment : Cardinality({p \in WithSegment : p <= i}) = j

\* C9: grounding_segments of a returned SearchResponse is None or a non-empty
\* list, never []; supports without segment are dropped, and the kept
\* segments are, in order, those of the supports that have one.
C9_SegmentsAbsentOrNonEmpty ==
    Responded =>
        /\ outcome.grounding_segments # ListVal(<<>>)
        /\ (outcome.grounding_segments = NoneVal) = (WithSegment = {})
        /\ outcome.grounding_segments # NoneVal =>
              /\ Len(outcome.grounding_segments.items) = Cardinality(WithSegment)
              /\ \A j \in 1..Len(outcome.grounding_segments.items) :
                    LET kept == outcome.grounding_segments.items[j]
                        support == RawSupports[NthWithSegment(j)]
                    IN /\ kept.end_index = GetAttr(support.segment.end_index, IntVal(0))
                       /\ kept.chunk_indices =
                              GetAttr(support.grounding_chunk_indices, ListVal(<<>>))

\* supports were given and none of them carries a segment
C9_Witness ==
    /\ Responded
    /\ Len(RawSupports) = 2
    /\ WithSegment = {}
    /\ outcome.grounding_segments = NoneVal

----------------------------------------------------------------------------
(* utils.py, core/client.py, commands/query_commands.py: the query command *)

NoPromptMessage ==
    <<"N", "o", " ", "p", "r", "o", "m", "p", "t", " ", "p", "r", "o", "v",
      "i", "d", "e", "d", ".", " ", "E", "i", "t", "h", "e", "r", " ", "p",
      "r", "o", "v", "i", "d", "e", " ", "P", "R", "O", "M", "P", "T", " ",
      "a", "r", "g", "u", "m", "e", "n", "t", " ", "o", "r", " ", "u", "s",
      "e", " ", "-", "-", "s", "t", "d", "i", "n", " ", "f", "l", "a", "g",
      ".", "\n", "E", "x", "a", "m", "p", "l", "e", "s", ":", "\n", " ", " ",
      "g", "e", "m", "i", "n", "i", "-", "g", "o", "o", "g", "l", "e", "-",
      "s", "e", "a", "r", "c", "h", "-", "t", "o", "o", "l", " ", "q", "u",
      "e", "r", "y", " ", "'", "W", "h", "o", " ", "w", "o", "n", " ", "e",
      "u", "r", "o", " ", "2", "0", "2", "4", "?", "'", "\n", " ", " ", "e",
      "c", "h", "o", " ", "'", "W", "h", "o", " ", "w", "o", "n", " ", "e",
      "u", "r", "o", " ", "2", "0", "2", "4", "?", "'", " ", "|", " ", "g",
      "e", "m", "i", "n", "i", "-", "g", "o", "o", "g", "l", "e", "-", "s",
      "e", "a", "r", "c", "h", "-", "t", "o", "o", "l", " ", "q", "u", "e",
      "r", "y", " ", "-", "-", "s", "t", "d", "i", "n">>

StdinTtyMessage ==
    <<"N", "o", " ", "i", "n", "p", "u", "t", " ", "a", "v", "a", "i", "l",
      "a", "b", "l", "e", " ", "f", "r", "o", "m", " ", "s", "t", "d", "i",
      "n", ".", " ", "U", "s", "e", " ", "-", "-", "s", "t", "d", "i", "n",
      " ", "f", "l", "a", "g", " ", "w", "i", "t", "h", " ", "p", "i", "p",
      "e", "d", " ", "i", "n", "p", "u", "t", ":", " ", "e", "c", "h", "o",
      " ", "'", "q", "u", "e", "s", "t", "i", "o", "n", "'", " ", "|", " ",
      "t", "o", "o", "l", " ", "q", "u", "e", "r", "y", " ", "-", "-", "s",
      "t", "d", "i", "n">>

StdinEmptyMessage ==
    <<"E", "m", "p", "t", "y", " ", "i", "n", "p", "u", "t", " ", "r", "e",
      "c", "e", "i", "v", "e", "d", " ", "f", "r", "o", "m", " ", "s", "t",
      "d", "i", "n", ".", " ", "P", "r", "o", "v", "i", "d", "e", " ", "n",
      "o", "n", "-", "e", "m", "p", "t", "y", " ", "i", "n", "p", "u", "t",
      ":", " ", "e", "c", "h", "o", " ", "'", "q", "u", "e", "s", "t", "i",
      "o", "n", "'", " ", "|", " ", "t", "o", "o", "l", " ", "q", "u", "e",
      "r", "y", " ", "-", "-", "s", "t", "d", "i", "n">>

ApiKeyMessage ==
    <<"G", "E", "M", "I", "N", "I", "_", "A", "P", "I", "_", "K", "E", "Y",
      " ", "e", "n", "v", "i", "r", "o", "n", "m", "e", "n", "t", " ", "v",
      "a", "r", "i", "a", "b", "l", "e", " ", "i", "s", " ", "r", "e", "q",
      "u", "i", "r", "e", "d", ".", " ", "S", "e", "t", " ", "i", "t", " ",
      "w", "i", "t", "h", ":", " ", "e", "x", "p", "o", "r", "t", " ", "G",
      "E", "M", "I", "N", "I", "_", "A", "P", "I", "_", "K", "E", "Y", "=",
      "'", "y", "o", "u", "r", "-", "a", "p", "i", "-", "k", "e", "y", "'">>

\* click.echo(f"Error: {str(e)}", err=True)
ErrorPrefix ==
    <<"E", "r", "r", "o", "r", ":", " ">>

\* click.echo("\n## Citations\n")
CitationsHeading ==
    <<"\n", "#", "#", " ", "C", "i", "t", "a", "t", "i", "o", "n", "s", "\n">>

\* the characters str.strip() removes, those with str.isspace(); a character
\* that has no TLA+ escape is written as its Python escape
Whitespace ==
    {"\t", "\n", "\\x0b", "\f", "\r", "\\x1c", "\\x1d", "\\x1e", "\\x1f", " ",
     "\\x85", "\\xa0", "\\u1680", "\\u2000", "\\u2001", "\\u2002", "\\u2003",
     "\\u2004", "\\u2005", "\\u2006", "\\u2007", "\\u2008", "\\u2009", "\\u200a",
     "\\u2028", "\\u2029", "\\u202f", "\\u205f", "\\u3000"}

RECURSIVE LStrip(_)
LStrip(s) ==
    IF s # <<>> /\ Head(s) \in Whitespace THEN LStrip(Tail(s)) ELSE s

RECURSIVE RStrip(_)
RStrip(s) ==
    IF s # <<>> /\ s[Len(s)] \in Whitespace
    THEN RStrip(SubSeq(s, 1, Len(s) - 1)) ELSE s

\* str.strip()
Strip(s) == RStrip(LStrip(s))

Return(v) == [tag |-> "return", val |-> v]

read_stdin(in) ==
    IF in.isatty THEN Raise("ValueError", StdinTtyMessage)
    ELSE LET content == Strip(in.content)
         IN IF content = <<>> THEN Raise("ValueError", StdinEmptyMessage)
            ELSE Return(content)

\* mutant: only a None prompt is rejected ("if prompt is None")
validate_prompt_none_only(prompt, use_stdin, in) ==
    IF use_stdin THEN read_stdin(in)
    ELSE IF prompt = NoneVal THEN Raise("ValueError", NoPromptMessage)
    ELSE Return(prompt.val)

validate_prompt(prompt, use_stdin, in) ==
    IF use_stdin THEN read_stdin(in)
    ELSE IF ~IsTrue(prompt) THEN Raise("ValueError", NoPromptMessage)
    ELSE Return(prompt.val)

\* GeminiClient(): the key comes from the environment
GeminiClient(key) ==
    IF ~IsTrue(key) THEN Raise("GeminiClientError", ApiKeyMessage)
    ELSE Return(key.val)

\* a citation line that prints the title even when it is empty
CitationLineAlwaysTitle(citation) ==
    IntToStr(citation.index) \o <<".", " ", "[">>
    \o citation.title
    \o <<"]", "(">> \o citation.uri \o <<")">>

\* one "{index}. [{title}]({uri})" line, the uri standing in for an empty title
CitationLine(citation) ==
    IntToStr(citation.index) \o <<".", " ", "[">>
    \o (IF citation.title # <<>> THEN citation.title ELSE citation.uri)
    \o <<"]", "(">> \o citation.uri \o <<")">>

\* the messages output_text echoes, in order
output_text(response) ==
    <<response.response_text>>
    \o (IF response.citations # <<>>
        THEN <<CitationsHeading>>
             \o [i \in 1..Len(response.citations) |-> CitationLine(response.citations[i])]
        ELSE <<>>)

\* {"index": c.index, "uri": c.uri, "title": c.title} for c in response.citations
CitationDicts(cits) ==
    [i \in 1..Len(cits) |->
        [index |-> cits[i].index, uri |-> cits[i].uri, title |-> cits[i].title]]

SupportDicts(segments) ==
    [i \in 1..Len(segments) |->
        [segment |-> [start_index |-> segments[i].start_index,
                      end_index |-> segments[i].end_index,
                      text |-> segments[i].text],
         grounding_chunk_indices |-> segments[i].chunk_indices]]

\* grounding_dict of the JSON branch
GroundingDict(response) ==
    (IF IsTrue(response.web_search_queries)
     THEN [web_search_queries |-> response.web_search_queries.items] ELSE <<>>)
    @@ (IF response.citations # <<>>
        THEN [grounding_chunks |-> CitationDicts(response.citations)] ELSE <<>>)
    @@ (IF IsTrue(response.grounding_segments)
        THEN [grounding_supports |-> SupportDicts(response.grounding_segments.items)]
        ELSE <<>>)

\* the dict handed to output_json
OutputDict(response, verbose) ==
    [response_text |-> response.response_text]
    @@ (IF response.citations # <<>>
        THEN [citations |-> CitationDicts(response.citations)] ELSE <<>>)
    @@ (IF verbose >= 2 /\ DOMAIN GroundingDict(response) # {}
        THEN [grounding_metadata |-> GroundingDict(response)] ELSE <<>>)

\* click.echo(json.dumps(data, indent=2)): one message carrying the document
output_json(data) == <<[tag |-> "json", data |-> data]>>

\* mutant: the error message goes to standard output
FailOnStdout(message) ==
    /\ stdout' = Append(stdout, ErrorPrefix \o message)
    /\ exit_code' = IntVal(1)
    /\ pc' = "exited"
    /\ UNCHANGED stderr

\* the handler of GeminiClientError, SearchError and ValueError
Fail(message) ==
    /\ stderr' = Append(stderr, ErrorPrefix \o message)
    /\ exit_code' = IntVal(1)
    /\ pc' = "exited"
    /\ UNCHANGED stdout

UnexpectedPrefix ==
    <<"U", "n", "e", "x", "p", "e", "c", "t", "e", "d", " ", "e", "r", "r", "o",
      "r", ":", " ">>

\* the handler of every other exception:
\* click.echo(f"Error: Unexpected error: {str(e)}", err=True); sys.exit(1)
FailUnexpected(message) ==
    /\ stderr' = Append(stderr, ErrorPrefix \o UnexpectedPrefix \o message)
    /\ exit_code' = IntVal(1)
    /\ pc' = "exited"
    /\ UNCHANGED stdout

\* an exception neither handler catches (one that is no Exception): the
\* command is left by the exception, nothing is echoed and sys.exit is
\* not called
Propagate ==
    /\ pc' = "raised"
    /\ UNCHANGED <<stdout, stderr, exit_code>>

\* final_prompt = validate_prompt(prompt, stdin)
ValidatePrompt ==
    /\ pc = "validate_prompt"
    /\ LET r == validate_prompt(args.prompt, args.stdin, stdin)
       IN IF r.tag = "raise"
          THEN Fail(r.message) /\ UNCHANGED final_prompt
          ELSE /\ final_prompt' = StrVal(r.val)
               /\ pc' = "init_client"
               /\ UNCHANGED <<stdout, stderr, exit_code>>
    /\ UNCHANGED <<args, stdin, api_key, spliceVars, queryVars>>

\* client = GeminiClient()
InitClient ==
    /\ pc = "init_client"
    /\ LET r == GeminiClient(api_key)
       IN IF r.tag = "raise"
          THEN Fail(r.message)
          ELSE /\ pc' = "execute_query"
               /\ UNCHANGED <<stdout, stderr, exit_code>>
    /\ UNCHANGED <<args, stdin, api_key, final_prompt, spliceVars, queryVars>>

\* response = query_with_grounding(client=client, prompt=final_prompt, model=model)
\* A SearchError reaches the first handler; an exception that
\* query_with_grounding let pass is caught by neither handler.
ExecuteQuery ==
    /\ pc = "execute_query"
    /\ LET r == query_with_grounding(reply)
       IN /\ outcome' = r
          /\ IF r.tag = "SearchError"
             THEN Fail(r.message)
             ELSE IF r.tag = "raise"
             THEN Propagate
             ELSE /\ pc' = "add_citations"
                  /\ UNCHANGED <<stdout, stderr, exit_code>>
    /\ UNCHANGED <<args, stdin, api_key, final_prompt, spliceVars, reply>>

\* if add_citations and response.grounding_segments: response.response_text = ...
\* A TypeError of add_inline_citations is no SearchError: it reaches the
\* handler of the remaining exceptions.
AddCitations ==
    /\ pc = "add_citations"
    /\ args.add_citations /\ IsTrue(outcome.grounding_segments)
    /\ LET text == add_inline_citations(outcome.response_text,
                                        outcome.grounding_segments,
                                        outcome.citations)
       IN IF text = Raised("TypeError")
          THEN /\ FailUnexpected(SortErrorMessage(outcome.grounding_segments.items))
               /\ UNCHANGED outcome
          ELSE /\ outcome' = [outcome EXCEPT !.response_text = text]
               /\ pc' = "output"
               /\ UNCHANGED <<stdout, stderr, exit_code>>
    /\ UNCHANGED <<args, stdin, api_key, final_prompt, spliceVars, reply>>

\* the same test failing: the response text stays as queried
SkipCitations ==
    /\ pc = "add_citations"
    /\ ~(args.add_citations /\ IsTrue(outcome.grounding_segments))
    /\ pc' = "output"
    /\ UNCHANGED <<cliVars, spliceVars, queryVars>>

\* if text: output_text(response); return
OutputText ==
    /\ pc = "output"
    /\ args.text
    /\ stdout' = stdout \o output_text(outcome)
    /\ exit_code' = IntVal(0)
    /\ pc' = "exited"
    /\ UNCHANGED <<args, stdin, api_key, final_prompt, stderr, spliceVars, queryVars>>

\* the JSON branch: output_json(output)
OutputJson ==
    /\ pc = "output"
    /\ ~args.text
    /\ stdout' = stdout \o output_json(OutputDict(outcome, args.verbose))
    /\ exit_code' = IntVal(0)
    /\ pc' = "exited"
    /\ UNCHANGED <<args, stdin, api_key, final_prompt, stderr, spliceVars, queryVars>>

----------------------------------------------------------------------------
(* Invocations of the query command                                        *)

Args(prompt, use_stdin, add_citations, text, verbose) ==
    [prompt |-> prompt, stdin |-> use_stdin, add_citations |-> add_citations,
     text |-> text, verbose |-> verbose]

Prompts == {NoneVal, StrVal(<<>>), StrVal(<<"w", "h", "o", "?">>)}

Stdins ==
    {[isatty |-> TRUE, content |-> <<>>],
     [isatty |-> FALSE, content |-> <<" ", "\f", "\\u3000", "\n">>],
     [isatty |-> FALSE, content |-> <<" ", "w", "h", "y", "\n">>],
     [isatty |-> FALSE, content |-> <<"\\xa0", "w", "h", "y", " ", "?", "\f", "\n">>]}

ApiKeys == {NoneVal, StrVal(<<>>), StrVal(<<"k">>)}

CliChunkLists ==
    {NoneVal, ListVal(<<>>)}
        \cup {ListVal(<<c>>) : c \in ChunkKinds}
        \cup {ListVal(<<c, Chunk(NoneVal, StrVal(<<"v">>), NoneVal)>>) : c \in ChunkKinds}

CliSupportLists ==
    {Missing}
        \cup {ListVal(<<s>>) : s \in SupportKinds}
        \cup {ListVal(<<Support(Segment(IntVal(0), IntVal(1), StrVal(<<"a">>)),
                                ListVal(<<0>>)), s>>) : s \in SupportKinds}
        \cup {ListVal(<<Support(Segment(IntVal(0), NoneVal, StrVal(<<"a">>)),
                                ListVal(<<0>>)),
                        Support(Segment(IntVal(0), IntVal(1), StrVal(<<"a">>)),
                                ListVal(<<0>>))>>)}

CliContents ==
    {NoneVal, Content(ListVal(<<Part(StrVal(<<"a">>)), Part(StrVal(<<"b">>))>>))}

CliReplies ==
    {Raise("APIError", m) : m \in ErrorMessages}
        \cup {Raise("KeyboardInterrupt", <<>>), Raise("BaseExceptionGroup", <<"g">>),
              RaiseAs("CustomBase", {"CustomBase", "BaseException"}, <<"u">>)}
        \cup {Response(NoneVal)}
        \cup {Response(ListVal(<<Candidate(c, NoneVal)>>)) : c \in CliContents}
        \cup {Response(ListVal(<<Candidate(c, Metadata(ch, ListVal(<<StrVal(<<"q">>)>>), su))>>)) :
                 c \in CliContents, ch \in CliChunkLists, su \in CliSupportLists}

CliInit ==
    /\ pc = "validate_prompt"
    /\ args \in {Args(p, s, a, t, v) :
                    p \in Prompts, s \in BOOLEAN, a \in BOOLEAN, t \in BOOLEAN,
                    v \in {0, 2}}
    /\ stdin \in Stdins
    /\ api_key \in ApiKeys
    /\ reply \in CliReplies
    /\ outcome = Idle
    /\ final_prompt = Idle
    /\ stdout = <<>>
    /\ stderr = <<>>
    /\ exit_code = Idle
    /\ SpliceIdle

CliNext ==
    \/ ValidatePrompt
    \/ InitClient
    \/ ExecuteQuery
    \/ AddCitations
    \/ SkipCitations
    \/ OutputText
    \/ OutputJson

CliSpec == CliInit /\ [][CliNext]_vars

----------------------------------------------------------------------------
(* Properties of the query command                                         *)

\* the command ended through sys.exit or the return of the function
Exited == pc = "exited"

\* the command ended, through sys.exit, a return or a propagating exception
Finished == pc \in {"exited", "raised"}

AllWhitespace(s) == \A i \in 1..Len(s) : s[i] \in Whitespace

\* no usable prompt: neither argument nor piped input
PromptFails ==
    IF args.stdin THEN stdin.isatty \/ AllWhitespace(stdin.content)
    ELSE args.prompt \in {NoneVal, StrVal(<<>>)}

ClientFails == api_key \in {NoneVal, StrVal(<<>>)}

QueryFails == reply.tag = "raise" \/ Uninterpretable(reply)

\* the query is reached and fails by an exception that is no Exception
QueryInterrupted == ~PromptFails /\ ~ClientFails /\ RemoteInterrupt

\* a failure the command reports: of the prompt, of the client, or a query
\* failure that query_with_grounding signals as a SearchError
ReportedFailure ==
    PromptFails \/ ClientFails \/ RemoteException \/ Uninterpretable(reply)

\* the message of the first stage that fails
FailureMessage ==
    IF PromptFails
    THEN (IF ~args.stdin THEN NoPromptMessage
          ELSE IF stdin.isatty THEN StdinTtyMessage ELSE StdinEmptyMessage)
    ELSE IF ClientFails THEN ApiKeyMessage
    ELSE QueryFailedPrefix
         \o (IF reply.tag = "raise" THEN reply.message ELSE NotIterableMessage)

\* the requested splicing cannot sort the segments that came back: a None
\* end_index among two or more of them, with citations to insert
SpliceFails ==
    /\ ~PromptFails /\ ~ClientFails /\ ~QueryFails
    /\ args.add_citations
    /\ LET queried == query_with_grounding(reply)
       IN /\ queried.grounding_segments # NoneVal
          /\ queried.citations # <<>>
          /\ Len(queried.grounding_segments.items) >= 2
          /\ \E i \in 1..Len(queried.grounding_segments.items) :
                queried.grounding_segments.items[i].end_index = NoneVal

\* the response text the output must carry: spliced when that was asked for
\* and segments came back
FinalResponseText ==
    LET queried == query_with_grounding(reply)
    IN IF args.add_citations /\ queried.grounding_segments # NoneVal
       THEN add_inline_citations(queried.response_text,
                                 queried.grounding_segments, queried.citations)
       ELSE queried.response_text

\* the response text found in what was written to standard output
WrittenResponseText ==
    IF args.text THEN stdout[1] ELSE stdout[1].data.response_text

----------------------------------------------------------------------------
(* utils.py: validate_prompt on its own                                    *)

PromptChars == {"w", "?", " "}

PromptInputs ==
    {NoneVal} \cup {StrVal(p) : p \in SeqsUpTo(PromptChars, MaxPromptLen)}

StdinInputs ==
    {[isatty |-> TRUE, content |-> <<>>]}
        \cup {[isatty |-> FALSE, content |-> c] :
                 c \in SeqsUpTo({"y", " ", "\n", "\f", "\\u2028"}, MaxStdinLen)}

PromptInit ==
    /\ pc = "validate_call"
    /\ args \in {Args(p, s, FALSE, FALSE, 0) : p \in PromptInputs, s \in BOOLEAN}
    /\ stdin \in StdinInputs
    /\ final_prompt = Idle
    /\ api_key = Idle
    /\ stdout = <<>>
    /\ stderr = <<>>
    /\ exit_code = Idle
    /\ reply = Idle
    /\ outcome = Idle
    /\ SpliceIdle

\* the call validate_prompt(prompt, use_stdin); final_prompt takes what the
\* call gives: the returned str or the raised exception
Validate ==
    /\ pc = "validate_call"
    /\ final_prompt' = validate_prompt(args.prompt, args.stdin, stdin)
    /\ pc' = "validate_returned"
    /\ UNCHANGED <<args, stdin, api_key, stdout, stderr, exit_code,
                   spliceVars, queryVars>>

PromptNext == Validate

PromptSpec == PromptInit /\ [][PromptNext]_vars

Validated == pc = "validate_returned"

\* "No prompt provided"
NoPromptProvided ==
    <<"N", "o", " ", "p", "r", "o", "m", "p", "t", " ", "p", "r", "o", "v",
      "i", "d", "e", "d">>

\* C11: without --stdin a non-empty prompt comes back as exactly the same
\* string, a None or empty prompt raises a ValueError whose message contains
\* "No prompt provided", and an empty string is never returned.
C11_PromptReturnedOrRejected ==
    Validated =>
        /\ final_prompt # Return(<<>>)
        /\ (~args.stdin /\ args.prompt \notin {NoneVal, StrVal(<<>>)}) =>
              final_prompt = Return(args.prompt.val)
        /\ (~args.stdin /\ args.prompt \in {NoneVal, StrVal(<<>>)}) =>
              /\ final_prompt.tag = "raise"
              /\ final_prompt.kind = "ValueError"
              /\ Contains(final_prompt.message, NoPromptProvided)

\* the empty prompt has been rejected although piped input was available
C11_Witness ==
    /\ Validated
    /\ ~args.stdin
    /\ args.prompt = StrVal(<<>>)
    /\ ~stdin.isatty /\ Strip(stdin.content) # <<>>
    /\ final_prompt.tag = "raise"

----------------------------------------------------------------------------
\* utils.py: the markdown output

CitationsHeadingText == <<"#", "#", " ", "C", "i", "t", "a", "t", "i", "o", "n", "s">>

\* the label between the square brackets of a citation's line
LinkLabel(c) == IF Len(c.title) > 0 THEN c.title ELSE c.uri

\* "{index}. [{label}]({uri})"
DescribedLine(c) ==
    Concat(<<IntToStr(c.index), <<".", " ">>, <<"[">>, LinkLabel(c), <<"]">>,
             <<"(">>, c.uri, <<")">>>>)

\* C12: the markdown output starts with the response text; nothing follows
\* when there are no citations, otherwise a "## Citations" heading and then
\* one line per citation in list order, "{index}. [{title}]({uri})" with the
\* uri in place of an empty title.
C12_MarkdownOutputLayout ==
    (Exited /\ args.text /\ stdout # <<>>) =>
        /\ stdout[1] = outcome.response_text
        /\ outcome.citations = <<>> => Len(stdout) = 1
        /\ outcome.citations # <<>> =>
              /\ Len(stdout) = 2 + Len(outcome.citations)
              /\ Contains(stdout[2], CitationsHeadingText)
              /\ \A i \in 1..Len(outcome.citations) :
                    stdout[2 + i] = DescribedLine(outcome.citations[i])

\* a markdown run that lists a titled and an untitled citation
C12_Witness ==
    /\ Exited /\ args.text /\ stdout # <<>>
    /\ Len(outcome.citations) = 2
    /\ \E i, j \in 1..2 :
          /\ outcome.citations[i].title = <<>>
          /\ outcome.citations[j].title # <<>>

----------------------------------------------------------------------------
\* search.py: segments that share an end_index

Reversed(s) == [i \in 1..Len(s) |-> s[Len(s) + 1 - i]]

\* the segments with end_index e, in the order of segs
TiedAt(segs, e) == SelectSeq(segs, LAMBDA s : s.end_index = IntVal(e))

\* the sorted list keeps segments of equal end_index in their input order
TiesKeepInputOrder(segs) ==
    \A e \in EndIndices : TiedAt(sorted_segments(segs), e) = TiedAt(segs, e)

\* the groups of the segments with end_index e, the group of the segment
\* given last in front, nothing between them
StackAt(segs, cits, e) ==
    LET tied == TiedAt(segs, e)
    IN Concat(Reversed([i \in 1..Len(tied) |-> GroupOf(tied[i], cits)]))

\* the text with the stack of every offset placed at that offset of the
\* original text
StackedAtOriginalOffsets(text, segs, cits) ==
    Concat([k \in 1..(Len(text) + 1) |->
               StackAt(segs, cits, k - 1)
               \o (IF k <= Len(text) THEN <<text[k]>> ELSE <<>>)])

\* two or more segments, all with the same int as end_index
AllTied(segs) ==
    /\ Len(segs) >= 2
    /\ IntEnds(segs)
    /\ \A i \in 1..Len(segs) : segs[i].end_index = segs[1].end_index

\* C13 as stated: whatever the end_index that segments share, they are
\* processed in input order and their groups end up as one stack, each later
\* group directly in front of the earlier ones, with no separator.
C13_TiedGroupsStack ==
    (Returned /\ HasSegments /\ citations # <<>> /\ AllTied(InputSegs)) =>
        /\ TiesKeepInputOrder(InputSegs)
        /\ Contains(spliced,
                    StackAt(InputSegs, citations, InputSegs[1].end_index.val))

\* C13 amended: when every end_index lies in 0..len(text), segments sharing
\* an end_index are processed in input order and their non-empty groups stack
\* at that offset of the original text, each later group directly in front of
\* the groups already inserted there, with no separator.
C13_TiedGroupsStackInRange ==
    (Returned /\ HasSegments /\ citations # <<>>
       /\ EndsInRange(InputSegs, response_text)) =>
        /\ TiesKeepInputOrder(InputSegs)
        /\ \A e \in EndIndices :
              Contains(spliced, StackAt(InputSegs, citations, e))
        /\ spliced = StackedAtOriginalOffsets(response_text, InputSegs, citations)

\* two segments with the same end_index inside the text, inserting different
\* groups
C13_Witness ==
    /\ Returned /\ HasSegments /\ Len(InputSegs) = 2
    /\ AllTied(InputSegs)
    /\ InputSegs[1].end_index.val > 0
    /\ InputSegs[1].end_index.val < Len(response_text)
    /\ GroupOf(InputSegs[1], citations) # <<>>
    /\ GroupOf(InputSegs[2], citations) # <<>>
    /\ GroupOf(InputSegs[1], citations) # GroupOf(InputSegs[2], citations)
    /\ spliced = SliceTo(response_text, InputSegs[1].end_index)
                   \o GroupOf(InputSegs[2], citations)
                   \o GroupOf(InputSegs[1], citations)
                   \o SliceFrom(response_text, InputSegs[1].end_index)

----------------------------------------------------------------------------
\* search.py: replies with absent optional parts

\* the candidate the extraction reads its metadata from, NoneVal without one
FirstCandidate(r) ==
    IF HasCandidate(r) THEN r.candidates.items[1] ELSE NoneVal

\* the reply carries no answer text: candidate, content or parts are missing
NoAnswerParts(r) ==
    \/ FirstCandidate(r) = NoneVal
    \/ ~IsTrue(FirstCandidate(r).content)
    \/ ~IsTrue(FirstCandidate(r).content.parts)

\* C14: a reply of a successful remote call never ends in SearchError; a
\* missing candidate, content or parts gives the empty response text, missing
\* metadata or an absent or null chunk list the empty citation list, an
\* absent or null query list no web_search_queries, an absent or null support
\* list no grounding_segments.
C14_AbsentPartsGiveDefaults ==
    (QueryReturned /\ reply.tag = "response") =>
        /\ outcome.tag = "SearchResponse"
        /\ NoAnswerParts(reply) => outcome.response_text = <<>>
        /\ RawChunks = <<>> => outcome.citations = <<>>
        /\ (UsedMetadata(reply) = NoneVal
              \/ ~IsTrue(UsedMetadata(reply).web_search_queries)) =>
              outcome.web_search_queries = NoneVal
        /\ RawSupports = <<>> => outcome.grounding_segments = NoneVal

----------------------------------------------------------------------------
\* search.py: the splice only inserts

\* the segments handed in, none for None
GivenSegs == IF HasSegments THEN InputSegs ELSE <<>>

RECURSIVE TotalGroupLength(_, _)
\* the summed length of the groups of segs
TotalGroupLength(segs, cits) ==
    IF segs = <<>> THEN 0
    ELSE Len(GroupOf(Head(segs), cits)) + TotalGroupLength(Tail(segs), cits)

RECURSIVE IsSubsequence(_, _)
\* s is what is left of t after deleting some of its characters
IsSubsequence(s, t) ==
    IF s = <<>> THEN TRUE
    ELSE IF t = <<>> THEN FALSE
    ELSE IF Head(s) = Head(t) THEN IsSubsequence(Tail(s), Tail(t))
    ELSE IsSubsequence(s, Tail(t))

\* the characters a citation group can consist of
MarkerChars ==
    {"[", "]", "(", ")", ",", " "}
        \cup {DigitChars[i] : i \in 1..Len(DigitChars)}
        \cup UNION {{u[i] : i \in 1..Len(u)} : u \in Uris}

\* no character of text can come from a citation group
FreeOfMarkerChars(text) == \A i \in 1..Len(text) : text[i] \notin MarkerChars

\* C15: whatever the end_index values, the result of a call that returns is
\* as long as the text plus the groups of all segments, the text is what is
\* left after deleting the inserted characters, and for a text that shares
\* no character with the groups, deleting every group character gives back
\* exactly the text.
C15_OnlyInserts ==
    (Returned /\ ~SpliceRaised) =>
        /\ Len(spliced) =
              Len(response_text)
              + (IF citations = <<>> THEN 0 ELSE TotalGroupLength(GivenSegs, citations))
        /\ IsSubsequence(response_text, spliced)
        /\ FreeOfMarkerChars(response_text) =>
              SelectSeq(spliced, LAMBDA c : c \notin MarkerChars) = response_text

====
